---------------------------- MODULE Spec2Model ----------------------------
(* A model of abrt's command-line reporter (src/cli/report.cpp) and of the  *)
(* user settings store (src/lib/user_settings.c).                           *)
(*                                                                          *)
(* C strings are sequences of one-character strings; reading one position   *)
(* past the last character yields the terminating NUL.                      *)
EXTENDS Integers, Sequences, FiniteSets, TLC

VARIABLES
    \* ---- field codec (escape / remove_comments_and_unescape / trim)
    cstr,       \* the field content handed to escape()
    cbuf,       \* the buffer the codec functions work on
    cpc,        \* which codec function ran last
    \* ---- run_report_editor
    ed_data,     \* crash_data: the report being reviewed
    ed_data0,    \* the report as it was when run_report_editor was entered
    ed_file,     \* content of the temporary file
    ed_rendered, \* what write_crash_report put into the file
    ed_pc,       \* position inside run_report_editor
    ed_ret,      \* return value of run_report_editor
    ed_changed,  \* report_changed, the result of read_crash_report
    \* ---- the scan of the event list in report()
    ev_text,     \* content of the CD_EVENTS item
    ev_found,    \* the reporters vector
    ev_pc,
    \* ---- get_reporter_plugin_settings
    gs_reporters, \* the reporters vector it is called with
    gs_sys,       \* what call_GetPluginSettings returns for each reporter
    gs_home,      \* whether getpwuid gives a home directory
    gs_user,      \* the file ~/.abrt/<reporter>.conf of each reporter
    gs_settings,  \* the table it returns
    gs_pc,
    \* ---- report()
    flags,              \* the flags argument
    created,            \* what call_CreateReport returns for crash_id
    outcome,            \* the status flag call_Report gives for each reporter
    crash_data,
    rating,
    reporters,
    reporters_settings,
    errors,
    plugins,
    it,                 \* index of the reporter the interactive loop is at
    pc,
    ret,                \* the value report() returns
    trace,              \* what was run, asked, called and printed, in order
    \* ---- user_settings.c
    user_settings,      \* the static hash table, or NULL
    conf_path,          \* the static path, or NULL
    files,              \* the files on disk: path -> content, absent paths left out
    us_pc,              \* idle, or the position inside save_conf_file
    us_path,            \* save_conf_file: its path argument
    us_todo,            \* save_conf_file: the keys the iteration has yet to write
    us_io,              \* save_conf_file: how create_parentdir, fopen and rename went
    us_ret,             \* the value the last call returned
    us_calls,           \* number of calls made so far
    us_hist,            \* the last call, the application loaded last and the
                        \* keys set since, as the caller knows them
    \* ---- ask_for_missing_settings
    am_settings,        \* single_plugin_settings
    am_settings0,       \* the settings as they were when it was entered
    am_pc,              \* position inside ask_for_missing_settings
    am_changed,         \* changed, the result of set_echo(false)
    am_result,          \* result, the buffer read_from_stdin fills
    am_prompts,         \* the questions printed, in order
    tty,                \* whether standard input is a terminal
    echo,               \* the ECHO flag of the terminal
    echo0               \* the ECHO flag when ask_for_missing_settings was entered

codecVars == <<cstr, cbuf, cpc>>
edVars == <<ed_data, ed_data0, ed_file, ed_rendered, ed_pc, ed_ret, ed_changed>>
evVars == <<ev_text, ev_found, ev_pc>>
gsVars == <<gs_reporters, gs_sys, gs_home, gs_user, gs_settings, gs_pc>>
repVars == <<flags, created, outcome, crash_data, rating, reporters,
             reporters_settings, errors, plugins, it, pc, ret, trace>>
usVars == <<user_settings, conf_path, files, us_pc, us_path, us_todo, us_io,
            us_ret, us_calls, us_hist>>
amVars == <<am_settings, am_settings0, am_pc, am_changed, am_result, am_prompts,
            tty, echo, echo0>>
vars == <<codecVars, edVars, evVars, gsVars, repVars, usVars, amVars>>

\* what each machine leaves alone
notCodec == <<edVars, evVars, gsVars, repVars, usVars, amVars>>
notEd == <<codecVars, evVars, gsVars, repVars, usVars, amVars>>
notEv == <<codecVars, edVars, gsVars, repVars, usVars, amVars>>
notGs == <<codecVars, edVars, evVars, repVars, usVars, amVars>>
notRep == <<codecVars, edVars, evVars, gsVars, usVars, amVars>>
notUs == <<codecVars, edVars, evVars, gsVars, repVars, amVars>>
notAm == <<codecVars, edVars, evVars, gsVars, repVars, usVars>>

----------------------------------------------------------------------------
(* Bounds *)

\* longest field content enumerated for the codec
MaxLen == 3

\* longest field content enumerated in full for the reviewed report
MaxDocLen == 1

\* most lines of an enumerated event list
MaxEventLines == 4

\* most reporters handed to get_reporter_plugin_settings on its own
MaxReporters == 2

\* most lines of the event list of a report handed to report()
MaxReportEvents == 2

\* most calls made to the user settings functions in one run
MaxCalls == 4

----------------------------------------------------------------------------
(* C strings *)

NUL == "NUL"
BSL == "\\"
NL  == "\n"

\* the characters field contents are drawn from
Alphabet == {"#", BSL, NL, " ", "a"}

\* str[i] of a NUL-terminated string, 0-based as in C
At(str, i) == IF i < Len(str) THEN str[i + 1] ELSE NUL

\* all sequences over S of length at most n
RECURSIVE SeqsUpTo(_, _)
SeqsUpTo(S, n) ==
    IF n = 0 THEN {<<>>}
    ELSE SeqsUpTo(S, n - 1) \cup {Append(q, e) : q \in SeqsUpTo(S, n - 1), e \in S}

\* isspace() on the modelled alphabet
isspace(ch) == ch \in {" ", NL, "\t"}

----------------------------------------------------------------------------
(* trim: report.cpp 32-52 *)

\* skip_whitespace(str): offset of the first non-whitespace character
RECURSIVE skip_whitespace(_, _)
skip_whitespace(str, i) ==
    IF At(str, i) # NUL /\ isspace(At(str, i)) THEN skip_whitespace(str, i + 1) ELSE i

\* variant: the loop over the tail stops at once
trim_tail_keep(str, i) == i - 1

\* while (--i >= 0) if (!isspace(str[i])) break;   yields i on loop exit
RECURSIVE trim_tail(_, _)
trim_tail(str, i) ==
    IF i - 1 >= 0
    THEN IF ~isspace(At(str, i - 1)) THEN i - 1 ELSE trim_tail(str, i - 1)
    ELSE i - 1

trim(str) ==
    LET ibuf  == skip_whitespace(str, 0)
        moved == SubSeq(str, ibuf + 1, Len(str))
        i     == trim_tail(moved, Len(moved))
    IN SubSeq(moved, 1, i + 1)

----------------------------------------------------------------------------
(* escape: report.cpp 58-103 *)

\* variant: newline is not set again after the first line
escape_needed_first(str, i, newline) ==
    i = 0 /\ (At(str, i) = "#" \/ (At(str, i) = BSL /\ At(str, i + 1) = "#"))

\* whether the copy loop puts a backslash in front of str[i]
escape_needed(str, i, newline) ==
    newline /\ (At(str, i) = "#" \/ (At(str, i) = BSL /\ At(str, i + 1) = "#"))

RECURSIVE escape_copy(_, _, _, _)
escape_copy(str, src, newline, dest) ==
    IF At(str, src) = NUL THEN dest
    ELSE escape_copy(str, src + 1, At(str, src) = NL,
                     dest \o (IF escape_needed(str, src, newline) THEN <<BSL>> ELSE <<>>)
                          \o <<At(str, src)>>)

escape(str) == escape_copy(str, 0, TRUE, <<>>)

----------------------------------------------------------------------------
(* remove_comments_and_unescape: report.cpp 109-139 *)

\* while (*src && *src != '\n') ++src;
RECURSIVE skip_line(_, _)
skip_line(str, src) ==
    IF At(str, src) # NUL /\ At(str, src) # NL THEN skip_line(str, src + 1) ELSE src

\* whether the character at src is an escaping backslash to be dropped
unescape_needed(str, src) ==
    /\ At(str, src) = BSL
    /\ \/ At(str, src + 1) = "#"
       \/ (At(str, src + 1) = BSL /\ At(str, src + 2) = "#")

RECURSIVE unescape_loop(_, _, _, _)
unescape_loop(str, src, newline, dest) ==
    IF At(str, src) = NUL THEN dest
    ELSE IF newline /\ At(str, src) = "#"
    THEN LET e == skip_line(str, src)
         IN IF At(str, e) = NUL THEN dest
            ELSE unescape_loop(str, e + 1, newline, dest)
    ELSE LET s == IF newline /\ unescape_needed(str, src) THEN src + 1 ELSE src
         IN unescape_loop(str, s + 1, At(str, s) = NL, Append(dest, At(str, s)))

remove_comments_and_unescape(str) == unescape_loop(str, 0, TRUE, <<>>)

----------------------------------------------------------------------------
(* Literal texts of the report document *)

\* the two comment lines and the blank line write_crash_report starts with (report.cpp 182-183)
ReportHeader ==
    <<"#", " ", "P", "l", "e", "a", "s", "e", " ", "c", "h", "e", "c", "k",
      " ", "t", "h", "i", "s", " ", "r", "e", "p", "o", "r", "t", ".", " ",
      "L", "i", "n", "e", "s", " ", "s", "t", "a", "r", "t", "i", "n", "g",
      " ", "w", "i", "t", "h", " ", "'", "#", "'", " ", "w", "i", "l", "l",
      " ", "b", "e", " ", "i", "g", "n", "o", "r", "e", "d", ".", NL, "#",
      " ", "L", "i", "n", "e", "s", " ", "s", "t", "a", "r", "t", "i", "n",
      "g", " ", "w", "i", "t", "h", " ", "'", "%", "-", "-", "-", "-", "'",
      " ", "s", "e", "p", "a", "r", "a", "t", "e", " ", "f", "i", "e", "l",
      "d", "s", ",", " ", "p", "l", "e", "a", "s", "e", " ", "d", "o", " ",
      "n", "o", "t", " ", "d", "e", "l", "e", "t", "e", " ", "t", "h", "e",
      "m", ".", NL, NL>>

\* report.cpp 26
FIELD_SEP ==
    <<"%", "-", "-", "-", "-">>

\* report.cpp 166
ReadOnlyLine ==
    <<"#", " ", "T", "h", "i", "s", " ", "f", "i", "e", "l", "d", " ", "i",
      "s", " ", "r", "e", "a", "d", " ", "o", "n", "l", "y", NL>>


----------------------------------------------------------------------------
(* The report (crash_data_t) and its rendering as an editable document *)

\* Names of the well-known fields.  The FILENAME_* macros come from a header;
\* a name is one symbol of the text it is printed into.
FILENAME_COMMENT      == "comment"
FILENAME_REPRODUCE    == "reproduce"
FILENAME_PACKAGE      == "package"

CD_FLAG_SYS        == "SYS"
CD_FLAG_ISEDITABLE == "ISEDITABLE"
CD_FLAG_TXT        == "TXT"

\* the fields write_crash_report and read_crash_report go through, in their
\* order, each with the description written under its separator
WellKnownFields ==
    <<
       \* FILENAME_COMMENT (report.cpp 186)
       [field |-> FILENAME_COMMENT,
        description |->
            <<"#", " ", "D", "e", "s", "c", "r", "i", "b", "e", " ", "t", "h", "e",
              " ", "c", "i", "r", "c", "u", "m", "s", "t", "a", "n", "c", "e", "s",
              " ", "o", "f", " ", "t", "h", "i", "s", " ", "c", "r", "a", "s", "h",
              " ", "b", "e", "l", "o", "w">>],
       \* FILENAME_REPRODUCE (report.cpp 188)
       [field |-> FILENAME_REPRODUCE,
        description |->
            <<"#", " ", "H", "o", "w", " ", "t", "o", " ", "r", "e", "p", "r", "o",
              "d", "u", "c", "e", " ", "t", "h", "e", " ", "c", "r", "a", "s", "h",
              "?">>],
       \* FILENAME_BACKTRACE (report.cpp 190)
       [field |-> "backtrace",
        description |->
            <<"#", " ", "B", "a", "c", "k", "t", "r", "a", "c", "e", NL, "#", " ",
              "C", "h", "e", "c", "k", " ", "t", "h", "a", "t", " ", "i", "t", " ",
              "d", "o", "e", "s", " ", "n", "o", "t", " ", "c", "o", "n", "t", "a",
              "i", "n", " ", "a", "n", "y", " ", "s", "e", "n", "s", "i", "t", "i",
              "v", "e", " ", "d", "a", "t", "a", " ", "(", "p", "a", "s", "s", "w",
              "o", "r", "d", "s", ",", " ", "e", "t", "c", ".", ")">>],
       \* FILENAME_DUPHASH (report.cpp 191)
       [field |-> "duphash",
        description |->
            <<"#", " ", "D", "U", "P", "H", "A", "S", "H">>],
       \* FILENAME_ARCHITECTURE (report.cpp 192)
       [field |-> "architecture",
        description |->
            <<"#", " ", "A", "r", "c", "h", "i", "t", "e", "c", "t", "u", "r", "e">>],
       \* FILENAME_CMDLINE (report.cpp 193)
       [field |-> "cmdline",
        description |->
            <<"#", " ", "C", "o", "m", "m", "a", "n", "d", " ", "l", "i", "n", "e">>],
       \* FILENAME_COMPONENT (report.cpp 194)
       [field |-> "component",
        description |->
            <<"#", " ", "C", "o", "m", "p", "o", "n", "e", "n", "t">>],
       \* FILENAME_COREDUMP (report.cpp 195)
       [field |-> "coredump",
        description |->
            <<"#", " ", "C", "o", "r", "e", " ", "d", "u", "m", "p">>],
       \* FILENAME_EXECUTABLE (report.cpp 196)
       [field |-> "executable",
        description |->
            <<"#", " ", "E", "x", "e", "c", "u", "t", "a", "b", "l", "e">>],
       \* FILENAME_KERNEL (report.cpp 197)
       [field |-> "kernel",
        description |->
            <<"#", " ", "K", "e", "r", "n", "e", "l", " ", "v", "e", "r", "s", "i",
              "o", "n">>],
       \* FILENAME_PACKAGE (report.cpp 198)
       [field |-> FILENAME_PACKAGE,
        description |->
            <<"#", " ", "P", "a", "c", "k", "a", "g", "e">>],
       \* FILENAME_REASON (report.cpp 199)
       [field |-> "reason",
        description |->
            <<"#", " ", "R", "e", "a", "s", "o", "n", " ", "o", "f", " ", "c", "r",
              "a", "s", "h">>],
       \* FILENAME_RELEASE (report.cpp 200)
       [field |-> "release",
        description |->
            <<"#", " ", "R", "e", "l", "e", "a", "s", "e", " ", "s", "t", "r", "i",
              "n", "g", " ", "o", "f", " ", "t", "h", "e", " ", "o", "p", "e", "r",
              "a", "t", "i", "n", "g", " ", "s", "y", "s", "t", "e", "m">>]
    >>

WellKnownNames == {WellKnownFields[i].field : i \in 1..Len(WellKnownFields)}

\* get_crash_data_item_or_NULL(crash_data, field) != NULL
has_item(data, field) == field \in DOMAIN data

\* strstr(text + from, pat): offset of the first occurrence at or after from, -1 if none
strstr(text, pat, from) ==
    LET hits == {i \in from..(Len(text) - Len(pat)) :
                    \A k \in 1..Len(pat) : text[i + k] = pat[k]}
    IN IF hits = {} THEN -1 ELSE CHOOSE i \in hits : \A j \in hits : i <= j

\* variant: fields with CD_FLAG_SYS are written as well
write_crash_report_field_all(data, field, description) ==
    IF ~has_item(data, field) THEN <<>>
    ELSE FIELD_SEP \o <<field, NL>>
         \o description \o <<NL>>
         \o (IF CD_FLAG_ISEDITABLE \notin data[field].flags THEN ReadOnlyLine ELSE <<>>)
         \o escape(data[field].content) \o <<NL>>

\* write_crash_report_field: the text it appends to the file (report.cpp 145-171)
write_crash_report_field(data, field, description) ==
    IF ~has_item(data, field) THEN <<>>
    ELSE IF CD_FLAG_SYS \in data[field].flags THEN <<>>
    ELSE FIELD_SEP \o <<field, NL>>
         \o description \o <<NL>>
         \o (IF CD_FLAG_ISEDITABLE \notin data[field].flags THEN ReadOnlyLine ELSE <<>>)
         \o escape(data[field].content) \o <<NL>>

\* write_crash_report: the whole file (report.cpp 180-201)
RECURSIVE write_fields(_, _)
write_fields(report, i) ==
    IF i > Len(WellKnownFields) THEN <<>>
    ELSE write_crash_report_field(report, WellKnownFields[i].field,
                                  WellKnownFields[i].description)
         \o write_fields(report, i + 1)

write_crash_report(report) == ReportHeader \o write_fields(report, 1)

\* "\n" FIELD_SEP field "\n" (report.cpp 214-215)
Separator(field) == <<NL>> \o FIELD_SEP \o <<field, NL>>

\* the field's block in text: whether "\n%----<field>\n" occurs, and the
\* trimmed text from there to the next "\n%----" or to the end
\* (report.cpp 214-226 and 246-249)
field_block(text, field) ==
    LET at == strstr(text, Separator(field), 0)
    IN IF at = -1 THEN [found |-> FALSE, newvalue |-> <<>>]
       ELSE LET textfield == at + Len(Separator(field))
                end       == strstr(text, <<NL>> \o FIELD_SEP, textfield)
                length    == IF end = -1 THEN Len(text) - textfield ELSE end - textfield
            IN [found |-> TRUE,
                newvalue |-> trim(SubSeq(text, textfield + 1, textfield + length))]

\* read_crash_report_field without the check of CD_FLAG_SYS
read_crash_report_field_nosys(text, report, field) ==
    LET blk == field_block(text, field)
    IN IF ~blk.found THEN [report |-> report, result |-> 0]
       ELSE IF ~has_item(report, field) THEN [report |-> report, result |-> 0]
       ELSE IF CD_FLAG_ISEDITABLE \notin report[field].flags
            THEN [report |-> report, result |-> 0]
       ELSE IF blk.newvalue = trim(report[field].content)
            THEN [report |-> report, result |-> 0]
       ELSE [report |-> [report EXCEPT ![field].content = blk.newvalue], result |-> 1]

\* read_crash_report_field without the check of CD_FLAG_ISEDITABLE
read_crash_report_field_noedit(text, report, field) ==
    LET blk == field_block(text, field)
    IN IF ~blk.found THEN [report |-> report, result |-> 0]
       ELSE IF ~has_item(report, field) THEN [report |-> report, result |-> 0]
       ELSE IF CD_FLAG_SYS \in report[field].flags THEN [report |-> report, result |-> 0]
       ELSE IF blk.newvalue = trim(report[field].content)
            THEN [report |-> report, result |-> 0]
       ELSE [report |-> [report EXCEPT ![field].content = blk.newvalue], result |-> 1]

\* read_crash_report_field: the updated report and the 0/1 it returns
\* (report.cpp 211-262)
read_crash_report_field(text, report, field) ==
    LET blk == field_block(text, field)
    IN IF ~blk.found THEN [report |-> report, result |-> 0]
       ELSE IF ~has_item(report, field) THEN [report |-> report, result |-> 0]
       ELSE IF CD_FLAG_SYS \in report[field].flags THEN [report |-> report, result |-> 0]
       ELSE IF CD_FLAG_ISEDITABLE \notin report[field].flags
            THEN [report |-> report, result |-> 0]
       ELSE IF blk.newvalue = trim(report[field].content)
            THEN [report |-> report, result |-> 0]
       ELSE [report |-> [report EXCEPT ![field].content = blk.newvalue], result |-> 1]

\* variant: result += x
BitOr_add(a, b) == a + b

\* result |= x, on the values 0 and 1
BitOr(a, b) == IF a = 1 \/ b = 1 THEN 1 ELSE 0

\* read_crash_report (report.cpp 272-289)
RECURSIVE read_fields(_, _, _, _)
read_fields(report, text, i, result) ==
    IF i > Len(WellKnownFields) THEN [report |-> report, result |-> result]
    ELSE LET r == read_crash_report_field(text, report, WellKnownFields[i].field)
         IN read_fields(r.report, text, i + 1, BitOr(result, r.result))

read_crash_report(report, text) == read_fields(report, text, 1, 0)

----------------------------------------------------------------------------
(* Discovery of the reporters in the event list: report.cpp 622-639 *)

\* an event line naming a reporter
EvReportBugzilla ==
    <<"r", "e", "p", "o", "r", "t", "_", "b", "u", "g", "z", "i", "l", "l",
      "a">>

\* an event line that only starts with "report"
EvReportXYZ ==
    <<"r", "e", "p", "o", "r", "t", "X", "Y", "Z">>

\* an event line of another kind
EvFoo ==
    <<"f", "o", "o">>

\* the event line "report"
EvReport ==
    <<"r", "e", "p", "o", "r", "t">>

\* the literal strncmp compares with (report.cpp 628)
ReportToken ==
    <<"r", "e", "p", "o", "r", "t">>

\* strchrnul(text + from, ch): offset of the first ch at or after from, or of the NUL
RECURSIVE strchrnul(_, _, _)
strchrnul(text, from, ch) ==
    IF At(text, from) = NUL \/ At(text, from) = ch THEN from
    ELSE strchrnul(text, from + 1, ch)

\* strncmp(text + from, lit, Len(lit)) == 0
strncmp_eq(text, from, lit) == \A k \in 0..(Len(lit) - 1) : At(text, from + k) = lit[k + 1]

\* the test of one line (628-629)
is_reporter_line(text, events) ==
    /\ strncmp_eq(text, events, ReportToken)
    /\ (At(text, events + 6) = NUL \/ At(text, events + 6) = "_")

\* the while loop (625-639)
RECURSIVE discover_loop(_, _, _)
discover_loop(text, events, found) ==
    IF At(text, events) = NUL THEN found
    ELSE LET end  == strchrnul(text, events, NL)
             next == IF is_reporter_line(text, events)
                     THEN Append(found, SubSeq(text, events + 1, end))
                     ELSE found
         IN IF At(text, end) = NUL THEN next
            ELSE discover_loop(text, end + 1, next)

discover_reporters(text) == discover_loop(text, 0, <<>>)

\* lines joined by newlines
RECURSIVE JoinLines(_)
JoinLines(lines) ==
    IF lines = <<>> THEN <<>>
    ELSE IF Len(lines) = 1 THEN lines[1]
    ELSE lines[1] \o <<NL>> \o JoinLines(Tail(lines))

EventLines == {EvReportBugzilla, EvReportXYZ, EvFoo, EvReport}

\* event lists of at most n lines, with and without a newline after the last line
EventTexts(n) ==
    {JoinLines(ls) \o tl : ls \in SeqsUpTo(EventLines, n), tl \in {<<>>, <<NL>>}}

----------------------------------------------------------------------------
(* Reporter plugin settings: report.cpp 500-556.  A map_string_t is a       *)
(* function from keys to values.                                            *)

EmptyMap == [k \in {} |-> ""]

\* the elements of a vector
Range(seq) == {seq[i] : i \in 1..Len(seq)}

\* variant: the entries of the file of the user are dropped
merge_user_settings_skipped(value, loaded, todo) == value

\* (*value)[key2] = value2 for every entry of the loaded file (544-550), in
\* the order the iteration of the hash table takes
RECURSIVE merge_user_settings(_, _, _)
merge_user_settings(value, loaded, todo) ==
    IF todo = {} THEN value
    ELSE LET key2 == CHOOSE k \in todo : TRUE
         IN merge_user_settings(
                [k \in DOMAIN value \cup {key2} |-> IF k = key2 THEN loaded[key2] ELSE value[k]],
                loaded, todo \ {key2})

\* get_reporter_plugin_settings: one entry per reporter, the system settings
\* (506-515) overlaid with the file of the user when there is a home
\* directory and load_conf_file succeeds (519-554)
get_reporter_plugin_settings(names, sys, home, user) ==
    [key \in Range(names) |->
        IF home /\ user[key].success
        THEN merge_user_settings(sys[key], user[key].map, DOMAIN user[key].map)
        ELSE sys[key]]

\* what call_GetPluginSettings may return: nothing (the call failed), or the
\* defaults of a plugin
SysSettings ==
    { EmptyMap,
      [Login |-> "", Password |-> "", Extra |-> "x"],
      [RatingRequired |-> "yes", Login |-> "bob"] }

\* what load_conf_file may find: no readable file, or the keys of the file
UserFiles ==
    { [success |-> FALSE, map |-> EmptyMap],
      [success |-> TRUE,  map |-> EmptyMap],
      [success |-> TRUE,  map |-> [Login |-> "alice"]],
      [success |-> TRUE,  map |-> [RatingRequired |-> "no", Mine |-> "m"]] }

\* the names a reporter may have
ReporterNames == {EvReportBugzilla, EvReport}

----------------------------------------------------------------------------
(* What the user may do to the temporary file in the editor *)

\* the file with the block of field replaced by body, or with such a block
\* appended when the file has none
SetBlock(text, field, body) ==
    LET sep == Separator(field)
        at  == strstr(text, sep, 0)
    IN IF at = -1 THEN text \o FIELD_SEP \o <<field, NL>> \o body \o <<NL>>
       ELSE LET from == at + Len(sep)
                end  == strstr(text, <<NL>> \o FIELD_SEP, from)
                to   == IF end = -1 THEN Len(text) ELSE end
            IN SubSeq(text, 1, from) \o body \o SubSeq(text, to + 1, Len(text))

\* the texts typed into a block
EditBodies == { <<>>, <<"a">>, <<"b", NL, "#", "c">>, <<" ", "b", " ">> }

\* the fields whose block the user touches
EditFields == {FILENAME_COMMENT, FILENAME_PACKAGE}

\* the file left as it is, with one block retyped, or with both
EditedTexts(text) ==
    {text} \cup {SetBlock(text, f, b) : f \in EditFields, b \in EditBodies}
           \cup {SetBlock(SetBlock(text, FILENAME_COMMENT, b), FILENAME_PACKAGE, <<"a">>) :
                    b \in EditBodies}

----------------------------------------------------------------------------
(* report(): report.cpp 593-718 *)

CLI_REPORT_BATCH == "CLI_REPORT_BATCH"
CLI_REPORT_SILENT_IF_NOT_FOUND == "CLI_REPORT_SILENT_IF_NOT_FOUND"

FILENAME_RATING == "rating"
CD_EVENTS       == "events"

\* the value of a decimal digit
DigitValue(ch) ==
    CASE ch = "0" -> 0 [] ch = "1" -> 1 [] ch = "2" -> 2 [] ch = "3" -> 3 [] ch = "4" -> 4
      [] ch = "5" -> 5 [] ch = "6" -> 6 [] ch = "7" -> 7 [] ch = "8" -> 8 [] ch = "9" -> 9

\* xatou(str) of a string of digits
RECURSIVE xatou_from(_, _, _)
xatou_from(str, i, acc) ==
    IF At(str, i) = NUL THEN acc
    ELSE xatou_from(str, i + 1, 10 * acc + DigitValue(At(str, i)))

xatou(str) == xatou_from(str, 0, 0)

\* rating_str ? xatou(rating_str) : 4   (607-608)
rating_of(data) ==
    IF has_item(data, FILENAME_RATING) THEN xatou(data[FILENAME_RATING].content) ELSE 4

\* create_fields_for_editor (295-302)
ReproduceTemplate ==
    <<"1", ".", " ", NL, "2", ".", " ", NL, "3", ".", " ", NL>>

add_if_missing(data, field, content, fl) ==
    IF has_item(data, field) THEN data
    ELSE [f \in DOMAIN data \cup {field} |->
            IF f = field THEN [content |-> content, flags |-> fl] ELSE data[f]]

create_fields_for_editor(data) ==
    add_if_missing(
        add_if_missing(data, FILENAME_COMMENT, <<>>, {CD_FLAG_TXT, CD_FLAG_ISEDITABLE}),
        FILENAME_REPRODUCE, ReproduceTemplate, {CD_FLAG_TXT, CD_FLAG_ISEDITABLE})

\* the reporters of the report (622-639)
reporters_of(data) ==
    IF has_item(data, CD_EVENTS) THEN discover_reporters(data[CD_EVENTS].content) ELSE <<>>

\* string_to_bool(value)
string_to_bool(value) == value \in {"1", "on", "yes", "true"}

\* the rating test of the interactive loop (677-680)
rating_refused(settings, r) ==
    /\ "RatingRequired" \in DOMAIN settings
    /\ string_to_bool(settings["RatingRequired"])
    /\ r < 3

\* ask_for_missing_settings (561-590): the settings after the prompts, login
\* and password being what read_from_stdin gives
\* variant: a login is asked for whenever the key is there
loginMissing_present(settings) == "Login" \in DOMAIN settings

loginMissing(settings) == "Login" \in DOMAIN settings /\ settings["Login"] = ""
passwordMissing(settings) == "Password" \in DOMAIN settings /\ settings["Password"] = ""

ask_for_missing_settings(settings, login, password) ==
    [k \in DOMAIN settings |->
        IF k = "Login" /\ loginMissing(settings) THEN login
        ELSE IF k = "Password" /\ passwordMissing(settings) THEN password
        ELSE settings[k]]

\* read_from_stdin (427-436): the line typed, without its newline, or the
\* empty string when fgets returns NULL (input being NUL then)
read_from_stdin(input) == IF input = NUL THEN "" ELSE input

\* set_echo (458-484) on a terminal whose ECHO flag is cur; got and set say
\* whether tcgetattr and tcsetattr succeed.  A failing tcsetattr ends the
\* process.
set_echo(enabled, istty, cur, got, set) ==
    IF ~istty THEN [changed |-> FALSE, echo |-> cur, died |-> FALSE]
    ELSE IF ~got THEN [changed |-> FALSE, echo |-> cur, died |-> FALSE]
    ELSE IF cur = enabled THEN [changed |-> FALSE, echo |-> cur, died |-> FALSE]
    ELSE IF ~set THEN [changed |-> FALSE, echo |-> cur, died |-> TRUE]
    ELSE [changed |-> TRUE, echo |-> enabled, died |-> FALSE]

\* call_Report(crash_data, reporters, settings): one status per reporter named
call_Report(names, flagOf) == [d \in Range(names) |-> flagOf[d]]

REPORT_STATUS_FAILED == "0"

\* variant: every status counts as a failure
failed_statuses_all(r) == Cardinality(DOMAIN r)

\* the number of statuses whose flag is "0" (656-657, 709-710)
failed_statuses(r) == Cardinality({d \in DOMAIN r : r[d] = REPORT_STATUS_FAILED})

\* the exit status returns the count of errors
finish_status_count(errs) == errs

\* return errors != 0 (717)
finish_status(errs) == IF errs # 0 THEN 1 ELSE 0

\* one entry of the trace
Ev(kind, dests, idx, arg) == [kind |-> kind, dests |-> dests, idx |-> idx, arg |-> arg]

\* the "name: message" lines of the statuses of a call, one per entry
RECURSIVE status_lines(_, _)
status_lines(r, todo) ==
    IF todo = {} THEN <<>>
    ELSE LET d == CHOOSE x \in todo : TRUE
         IN <<Ev("status", <<d>>, 0, r[d])>> \o status_lines(r, todo \ {d})

\* what the user may leave in the file during the review of report()
ReviewTexts(text) == {text, SetBlock(text, FILENAME_COMMENT, <<"a">>)}

\* what the user types at a prompt
Typed == {"", "u"}

\* what fgets leaves in answer[] of ask_yesno: a line with its newline
AnswerLines == { <<"y", NL>>, <<"N", NL>> }

\* variant: the loop is left after the first reporter
after_reporter_break(i, n) == "finish"

\* ++it and the test it != reporters.end() of the for loop (664): where
\* report() goes after the pass for reporter i of n
after_reporter(i, n) == IF i + 1 > n THEN "finish" ELSE "loop"

\* variant: every answer counts as a yes
ask_yesno_always(answer) == TRUE

\* ask_yesno (442-455): 0 == strncmp(answer, yes, strlen(yes)), yes being "y"
ask_yesno(answer) == strncmp_eq(answer, 0, <<"y">>)

\* variant: an empty report is taken for a report
report_not_found_null(report) == report.null

\* !crash_data || g_hash_table_size(crash_data) == 0 (601)
report_not_found(report) == report.null \/ DOMAIN report.data = {}

\* variant: the result of launch_editor is handed on as it is
review_status_launch(io) ==
    IF io \in {"file_before", "file_after"} THEN 2 ELSE IF io = "no_editor" THEN 1 ELSE 0

\* what run_report_editor returns (353-415) when a call on the temporary file
\* fails before or after the editor ran, when launch_editor fails, and otherwise
review_status(io) ==
    IF io \in {"file_before", "file_after"} THEN 2 ELSE IF io = "no_editor" THEN 3 ELSE 0

----------------------------------------------------------------------------
(* user_settings.c.  A path is a sequence of pieces, "/" being the          *)
(* separator; a map_string_h is a function from keys to values.             *)

\* variant: the entries are written to the target itself
temp_path_of_same(path) == path

\* xasprintf("%s.tmp", path) (51)
temp_path_of(path) == path \o <<".tmp">>

\* the in-place dirname() of create_parentdir (29-32): offset of the last '/',
\* or -1 when the scan ends on another character
RECURSIVE last_slash(_, _)
last_slash(path, c) ==
    IF c > 0 /\ At(path, c) # "/" THEN last_slash(path, c - 1)
    ELSE IF At(path, c) # "/" THEN -1 ELSE c

\* create_parentdir (23-39), made being what make_dir_recursive returns
create_parentdir(path, made) ==
    IF last_slash(path, Len(path)) = -1 THEN FALSE ELSE made

\* get_conf_path (76-84): $HOME/.abrt/settings/<name>.conf
get_conf_path(name) == <<"~", "/", ".abrt", "/", "settings", "/", name, ".conf">>

\* !rename(temp_path, path) (63): the test that leaves ret false
rename_jumps_to_cleanup(rc) == rc = 0

\* the applications, keys and values of the calls
AppNames == {"A", "B"}
SettingKeys == {"k1", "k2"}
SettingValues == {"v", "w"}

----------------------------------------------------------------------------
(* Machines not running *)

CodecIdle == cstr = <<>> /\ cbuf = <<>> /\ cpc = "off"

EdIdle ==
    /\ ed_data = <<>> /\ ed_data0 = <<>> /\ ed_file = <<>> /\ ed_rendered = <<>>
    /\ ed_pc = "off" /\ ed_ret = 0 /\ ed_changed = 0

EvIdle == ev_text = <<>> /\ ev_found = <<>> /\ ev_pc = "off"

GsIdle ==
    /\ gs_reporters = <<>> /\ gs_sys = <<>> /\ gs_home = FALSE /\ gs_user = <<>>
    /\ gs_settings = <<>> /\ gs_pc = "off"

RepIdle ==
    /\ flags = {} /\ created = <<>> /\ outcome = <<>> /\ crash_data = <<>>
    /\ rating = 0 /\ reporters = <<>> /\ reporters_settings = <<>>
    /\ errors = 0 /\ plugins = 0 /\ it = 0 /\ pc = "off" /\ ret = 0 /\ trace = <<>>

UsIdle ==
    /\ user_settings = <<>> /\ conf_path = <<>> /\ files = <<>> /\ us_pc = "off"
    /\ us_path = <<>> /\ us_todo = {} /\ us_io = <<>> /\ us_ret = FALSE /\ us_calls = 0
    /\ us_hist = <<>>

AmIdle ==
    /\ am_settings = <<>> /\ am_settings0 = <<>> /\ am_pc = "off" /\ am_changed = FALSE
    /\ am_result = "" /\ am_prompts = <<>> /\ tty = FALSE /\ echo = FALSE /\ echo0 = FALSE

----------------------------------------------------------------------------
(* The codec machine: a content is escaped, rendered after the comment      *)
(* lines of its block, and parsed back.                                     *)

\* the comment lines write_crash_report_field puts in front of a content
CommentPrefixes ==
    {<<>>, WellKnownFields[4].description \o <<NL>>, WellKnownFields[4].description \o <<NL>> \o ReadOnlyLine}

CodecInit ==
    /\ cstr \in SeqsUpTo(Alphabet, MaxLen)
    /\ cbuf = cstr
    /\ cpc = "content"
    /\ EdIdle /\ EvIdle /\ GsIdle /\ RepIdle /\ UsIdle /\ AmIdle

CodecEscape ==
    /\ cpc = "content"
    /\ cbuf' = escape(cbuf)
    /\ cpc' = "escaped"
    /\ UNCHANGED <<cstr, notCodec>>

CodecInjectComments ==
    /\ cpc = "escaped"
    /\ \E p \in CommentPrefixes : cbuf' = p \o cbuf
    /\ cpc' = "rendered"
    /\ UNCHANGED <<cstr, notCodec>>

CodecUnescape ==
    /\ cpc = "rendered"
    /\ cbuf' = remove_comments_and_unescape(cbuf)
    /\ cpc' = "parsed"
    /\ UNCHANGED <<cstr, notCodec>>

CodecTrim ==
    /\ cpc \in {"content", "trimmed"}
    /\ cbuf' = trim(cbuf)
    /\ cpc' = IF cpc = "content" THEN "trimmed" ELSE "trimmed2"
    /\ UNCHANGED <<cstr, notCodec>>

CodecNext == CodecEscape \/ CodecInjectComments \/ CodecUnescape \/ CodecTrim

SpecCodec == CodecInit /\ [][CodecNext]_vars

----------------------------------------------------------------------------
(* run_report_editor (report.cpp 345-416), one action per stretch of code   *)
(* between two outcomes the environment decides.                            *)

\* contents of the fields of an enumerated report
DocSamples ==
    { <<BSL, BSL, "#">>, <<"#", "a">>, <<" ", "a", NL>>,
      <<"a", NL, "%", "-", "-", "-", "-">> }

DocItems ==
    [ content : SeqsUpTo({"a", "#"}, MaxDocLen) \cup DocSamples,
      flags : {{CD_FLAG_TXT} \cup fl : fl \in SUBSET {CD_FLAG_SYS, CD_FLAG_ISEDITABLE}} ]

\* the reports: any of the fields the user touches, with any such item
DocReports == UNION { [present -> DocItems] : present \in SUBSET EditFields }

EdInit ==
    /\ ed_data \in DocReports
    /\ ed_data0 = ed_data
    /\ ed_file = <<>>
    /\ ed_rendered = <<>>
    /\ ed_pc = "mkstemp"
    /\ ed_ret = 0
    /\ ed_changed = 0
    /\ CodecIdle /\ EvIdle /\ GsIdle /\ RepIdle /\ UsIdle /\ AmIdle

EdReturn(code) ==
    /\ ed_pc' = "returned"
    /\ ed_ret' = code

\* mkstemp and fdopen (345-361)
EdOpenTemp ==
    /\ ed_pc = "mkstemp"
    /\ \E ok \in BOOLEAN :
          IF ok THEN ed_pc' = "write" /\ UNCHANGED ed_ret
          ELSE EdReturn(2)
    /\ UNCHANGED <<ed_data, ed_data0, ed_file, ed_rendered, ed_changed, notEd>>

\* write_crash_report and fclose (363-369)
EdWrite ==
    /\ ed_pc = "write"
    /\ ed_file' = write_crash_report(ed_data)
    /\ ed_rendered' = ed_file'
    /\ \E closed \in BOOLEAN :
          IF closed THEN ed_pc' = "launch" /\ UNCHANGED ed_ret
          ELSE EdReturn(2)
    /\ UNCHANGED <<ed_data, ed_data0, ed_changed, notEd>>

\* launch_editor (310-337, 371-373): without ABRT_EDITOR, VISUAL and EDITOR and
\* with TERM unset or "dumb" nothing is run; otherwise the user edits the file
EdLaunch ==
    /\ ed_pc = "launch"
    /\ \E editor \in BOOLEAN, terminal \in {"unset", "dumb", "xterm"} :
          IF ~editor /\ terminal \in {"unset", "dumb"}
          THEN EdReturn(3) /\ UNCHANGED ed_file
          ELSE /\ ed_file' \in EditedTexts(ed_file)
               /\ ed_pc' = "readback"
               /\ UNCHANGED ed_ret
    /\ UNCHANGED <<ed_data, ed_data0, ed_rendered, ed_changed, notEd>>

\* fopen, fread, fclose and unlink of the edited file (375-404); a failing
\* unlink is only reported
EdReadBack ==
    /\ ed_pc = "readback"
    /\ \E opened \in BOOLEAN, read \in BOOLEAN, closed \in BOOLEAN, unlinked \in BOOLEAN :
          IF opened /\ read /\ closed THEN ed_pc' = "apply" /\ UNCHANGED ed_ret
          ELSE EdReturn(2)
    /\ UNCHANGED <<ed_data, ed_data0, ed_file, ed_rendered, ed_changed, notEd>>

\* remove_comments_and_unescape, read_crash_report, return 0 (406-415)
EdApply ==
    /\ ed_pc = "apply"
    /\ LET text == remove_comments_and_unescape(ed_file)
           r    == read_crash_report(ed_data, text)
       IN /\ ed_data' = r.report
          /\ ed_changed' = r.result
    /\ EdReturn(0)
    /\ UNCHANGED <<ed_data0, ed_file, ed_rendered, notEd>>

EdNext == EdOpenTemp \/ EdWrite \/ EdLaunch \/ EdReadBack \/ EdApply

SpecEditor == EdInit /\ [][EdNext]_vars

\* the review ran to its end
EdApplied == ed_pc = "returned" /\ ed_ret = 0

----------------------------------------------------------------------------
(* The scan of an event list on its own *)

EvInit ==
    /\ ev_text \in EventTexts(MaxEventLines)
    /\ ev_found = <<>>
    /\ ev_pc = "scan"
    /\ CodecIdle /\ EdIdle /\ GsIdle /\ RepIdle /\ UsIdle /\ AmIdle

EvDiscover ==
    /\ ev_pc = "scan"
    /\ ev_found' = discover_reporters(ev_text)
    /\ ev_pc' = "scanned"
    /\ UNCHANGED <<ev_text, notEv>>

EvNext == EvDiscover

SpecDiscover == EvInit /\ [][EvNext]_vars

----------------------------------------------------------------------------
(* get_reporter_plugin_settings on its own *)

GsInit ==
    /\ gs_reporters \in SeqsUpTo(ReporterNames, MaxReporters)
    /\ gs_sys \in [ReporterNames -> SysSettings]
    /\ gs_home \in BOOLEAN
    /\ gs_user \in [ReporterNames -> UserFiles]
    /\ gs_settings = <<>>
    /\ gs_pc = "call"
    /\ CodecIdle /\ EdIdle /\ EvIdle /\ RepIdle /\ UsIdle /\ AmIdle

GsGetSettings ==
    /\ gs_pc = "call"
    /\ gs_settings' = get_reporter_plugin_settings(gs_reporters, gs_sys, gs_home, gs_user)
    /\ gs_pc' = "returned"
    /\ UNCHANGED <<gs_reporters, gs_sys, gs_home, gs_user, notGs>>

GsNext == GsGetSettings

SpecSettings == GsInit /\ [][GsNext]_vars

----------------------------------------------------------------------------
(* report() *)

Item(content) == [content |-> content, flags |-> {CD_FLAG_TXT}]

RatingContents == {<<"2">>, <<"3">>}

\* the reports the daemon may hold: a package, with or without a rating and
\* with or without an event list
ReportsWith(ratings, events) ==
    { [f \in {FILENAME_PACKAGE} \cup r \cup e |->
          IF f = FILENAME_RATING THEN Item(rc)
          ELSE IF f = CD_EVENTS THEN Item(ec)
          ELSE Item(<<"p">>)] :
      r \in {{}, {FILENAME_RATING}}, e \in {{}, {CD_EVENTS}}, rc \in ratings, ec \in events }

ReportEventTexts ==
    {JoinLines(ls) : ls \in SeqsUpTo({EvReportBugzilla, EvReport, EvFoo}, MaxReportEvents)}

\* call_CreateReport: NULL, an empty report, or a report
CreatedReports ==
    { [null |-> TRUE, data |-> EmptyMap], [null |-> FALSE, data |-> EmptyMap] }
    \cup { [null |-> FALSE, data |-> d] : d \in ReportsWith(RatingContents, ReportEventTexts) }

RepInit ==
    /\ flags \in SUBSET {CLI_REPORT_BATCH, CLI_REPORT_SILENT_IF_NOT_FOUND}
    /\ created \in CreatedReports
    /\ outcome \in [ReporterNames -> {"0", "1"}]
    /\ crash_data = EmptyMap
    /\ rating = 0
    /\ reporters = <<>>
    /\ reporters_settings = EmptyMap
    /\ errors = 0
    /\ plugins = 0
    /\ it = 0
    /\ pc = "create"
    /\ ret = 0
    /\ trace = <<>>
    /\ CodecIdle /\ EdIdle /\ EvIdle /\ GsIdle /\ UsIdle /\ AmIdle

\* call_CreateReport, the not-found return and the rating (595-608)
RepCreate ==
    /\ pc = "create"
    /\ IF report_not_found(created)
       THEN /\ ret' = -1
            /\ pc' = "done"
            /\ UNCHANGED <<crash_data, rating>>
       ELSE /\ crash_data' = created.data
            /\ rating' = rating_of(created.data)
            /\ pc' = IF CLI_REPORT_BATCH \in flags THEN "discover" ELSE "review"
            /\ UNCHANGED ret
    /\ UNCHANGED <<flags, created, outcome, reporters, reporters_settings,
                   errors, plugins, it, trace, notRep>>

\* create_fields_for_editor and run_report_editor (610-620); io says where the
\* files or the editor fail
RepReview ==
    /\ pc = "review"
    /\ LET data == create_fields_for_editor(crash_data)
       IN \E io \in {"file_before", "no_editor", "file_after", "ok"} :
             IF io \in {"file_before", "no_editor"}
             THEN /\ crash_data' = data /\ ret' = review_status(io) /\ pc' = "done"
                  /\ trace' = Append(trace, Ev("error_msg", <<>>, 0, io))
             ELSE IF io = "file_after"
             THEN /\ crash_data' = data /\ ret' = review_status(io) /\ pc' = "done"
                  /\ trace' = trace \o <<Ev("editor", <<>>, 0, ""), Ev("error_msg", <<>>, 0, io)>>
             ELSE /\ \E text \in ReviewTexts(write_crash_report(data)) :
                        crash_data' =
                            read_crash_report(data, remove_comments_and_unescape(text)).report
                  /\ pc' = "discover"
                  /\ trace' = Append(trace, Ev("editor", <<>>, 0, ""))
                  /\ UNCHANGED ret
    /\ UNCHANGED <<flags, created, outcome, rating, reporters, reporters_settings,
                   errors, plugins, it, notRep>>

\* the scan of the event list (622-639)
RepDiscover ==
    /\ pc = "discover"
    /\ reporters' = reporters_of(crash_data)
    /\ pc' = "settings"
    /\ UNCHANGED <<flags, created, outcome, crash_data, rating, reporters_settings,
                   errors, plugins, it, ret, trace, notRep>>

\* get_reporter_plugin_settings (641-645)
RepSettings ==
    /\ pc = "settings"
    /\ \E sys \in [Range(reporters) -> SysSettings], home \in BOOLEAN,
          user \in [Range(reporters) -> UserFiles] :
          reporters_settings' = get_reporter_plugin_settings(reporters, sys, home, user)
    /\ errors' = 0
    /\ plugins' = 0
    /\ it' = 1
    /\ pc' = IF CLI_REPORT_BATCH \in flags THEN "batch"
             ELSE IF reporters = <<>> THEN "finish" ELSE "loop"
    /\ trace' = Append(trace, Ev("settings", reporters, 0, ""))
    /\ UNCHANGED <<flags, created, outcome, crash_data, rating, reporters,
                   ret, notRep>>

\* batch mode: one call_Report for all reporters (646-660)
RepBatch ==
    /\ pc = "batch"
    /\ LET r == call_Report(reporters, outcome)
       IN /\ plugins' = plugins + Cardinality(DOMAIN r)
          /\ errors' = errors + failed_statuses(r)
          /\ trace' = trace \o <<Ev("Report", reporters, 0, "")>> \o status_lines(r, DOMAIN r)
    /\ pc' = "finish"
    /\ UNCHANGED <<flags, created, outcome, crash_data, rating, reporters,
                   reporters_settings, it, ret, notRep>>

\* interactive mode: one pass of the loop over the reporters (664-711).  line
\* is what fgets reads in ask_yesno, <<>> when it reads nothing; answer[] then
\* keeps what the stack held, which is stale.
RepInteractive ==
    /\ pc = "loop"
    /\ LET d == reporters[it]
       IN \E line \in AnswerLines \cup {<<>>}, stale \in AnswerLines,
             login \in Typed, password \in Typed :
          LET answer == IF line = <<>> THEN stale ELSE line
              typed  == Ev("typed", <<d>>, it, line)
          IN
          IF ~ask_yesno(answer)
          THEN /\ trace' = trace \o <<typed, Ev("ask", <<d>>, it, "no"), Ev("skipping", <<d>>, it, "")>>
               /\ UNCHANGED <<reporters_settings, plugins, errors>>
          ELSE IF d \notin DOMAIN reporters_settings
          THEN /\ trace' = trace \o <<typed, Ev("ask", <<d>>, it, "yes"), Ev("loaderror", <<d>>, it, "")>>
               /\ plugins' = plugins + 1
               /\ errors' = errors + 1
               /\ UNCHANGED reporters_settings
          ELSE IF rating_refused(reporters_settings[d], rating)
          THEN /\ trace' = trace \o <<typed, Ev("ask", <<d>>, it, "yes"), Ev("disabled", <<d>>, it, "")>>
               /\ plugins' = plugins + 1
               /\ errors' = errors + 1
               /\ UNCHANGED reporters_settings
          ELSE LET settings == reporters_settings[d]
                   r == call_Report(<<d>>, outcome)
               IN /\ reporters_settings' =
                        [reporters_settings EXCEPT
                            ![d] = ask_for_missing_settings(settings, login, password)]
                  /\ trace' = trace
                        \o <<typed, Ev("ask", <<d>>, it, "yes")>>
                        \o (IF loginMissing(settings)
                            THEN <<Ev("prompt", <<d>>, it, "Login")>> ELSE <<>>)
                        \o (IF passwordMissing(settings)
                            THEN <<Ev("prompt", <<d>>, it, "Password")>> ELSE <<>>)
                        \o <<Ev("Report", <<d>>, it, "")>>
                        \o status_lines(r, DOMAIN r)
                  /\ plugins' = plugins + 1
                  /\ errors' = errors + failed_statuses(r)
    /\ it' = it + 1
    /\ pc' = after_reporter(it, Len(reporters))
    /\ UNCHANGED <<flags, created, outcome, crash_data, rating, reporters, ret, notRep>>

\* the summary line and the return value (714-717)
RepFinish ==
    /\ pc = "finish"
    /\ trace' = Append(trace, Ev("summary", <<>>, plugins, ""))
    /\ ret' = finish_status(errors)
    /\ pc' = "done"
    /\ UNCHANGED <<flags, created, outcome, crash_data, rating, reporters,
                   reporters_settings, errors, plugins, it, notRep>>

Next ==
    \/ RepCreate
    \/ RepReview
    \/ RepDiscover
    \/ RepSettings
    \/ RepBatch
    \/ RepInteractive
    \/ RepFinish

Spec == RepInit /\ [][Next]_vars

\* report() went through its last step
Finished == pc = "done" /\ trace # <<>> /\ trace[Len(trace)].kind = "summary"

----------------------------------------------------------------------------
(* user_settings.c: load_user_settings, set_user_setting, get_user_setting, *)
(* save_user_settings and save_conf_file, the latter one action per system  *)
(* call.                                                                    *)

NoIo == [mkdir |-> "none", fopen |-> "none", rename |-> "none"]

\* the files a run may start with
InitialFiles ==
    { EmptyMap,
      (get_conf_path("A") :> [k1 |-> "v"]),
      (get_conf_path("A") :> [k1 |-> "w", k2 |-> "v"]) @@ (get_conf_path("B") :> EmptyMap) }

UsInit ==
    /\ user_settings = [null |-> TRUE, map |-> EmptyMap]
    /\ conf_path = [null |-> TRUE, path |-> <<>>]
    /\ files \in InitialFiles
    /\ us_pc = "idle"
    /\ us_path = <<>>
    /\ us_todo = {}
    /\ us_io = NoIo
    /\ us_ret = FALSE
    /\ us_calls = 0
    /\ us_hist = [last |-> [op |-> "", name |-> "", value |-> ""], app |-> "", since |-> EmptyMap]
    /\ CodecIdle /\ EdIdle /\ EvIdle /\ GsIdle /\ RepIdle /\ AmIdle

UsCall ==
    /\ us_pc = "idle"
    /\ us_calls < MaxCalls
    /\ us_calls' = us_calls + 1

\* variant: the table of the application loaded before is kept and filled
UsLoad_keep ==
    /\ UsCall
    /\ \E app \in AppNames, readable \in BOOLEAN :
          LET path   == get_conf_path(app)
              ok     == path \in DOMAIN files /\ readable
              loaded == IF ok THEN files[path] ELSE EmptyMap
          IN /\ conf_path' = [null |-> FALSE, path |-> path]
             /\ user_settings' =
                   [null |-> FALSE,
                    map |-> [k \in DOMAIN user_settings.map \cup DOMAIN loaded |->
                                IF k \in DOMAIN loaded THEN loaded[k] ELSE user_settings.map[k]]]
             /\ us_ret' = ok
             /\ us_hist' = [last |-> [op |-> "load", name |-> app, value |-> ""],
                            app |-> app, since |-> EmptyMap]
    /\ UNCHANGED <<files, us_pc, us_path, us_todo, us_io, notUs>>

\* load_user_settings (94-109); load_conf_file fills the table from the file
\* and fails when the file cannot be read
UsLoad ==
    /\ UsCall
    /\ \E app \in AppNames, readable \in BOOLEAN :
          LET path == get_conf_path(app)
              ok   == path \in DOMAIN files /\ readable
          IN /\ conf_path' = [null |-> FALSE, path |-> path]
             /\ user_settings' = [null |-> FALSE, map |-> IF ok THEN files[path] ELSE EmptyMap]
             /\ us_ret' = ok
             /\ us_hist' = [last |-> [op |-> "load", name |-> app, value |-> ""],
                            app |-> app, since |-> EmptyMap]
    /\ UNCHANGED <<files, us_pc, us_path, us_todo, us_io, notUs>>

\* set_user_setting (111-117).  On a NULL table g_hash_table_replace and
\* g_hash_table_remove return without effect where GLib checks its arguments
\* and end the process where it does not.
UsSet ==
    /\ UsCall
    /\ \E name \in SettingKeys, value \in SettingValues \cup {NUL}, checked \in BOOLEAN :
          /\ user_settings' =
                IF user_settings.null THEN user_settings
                ELSE IF value # NUL
                THEN [user_settings EXCEPT !.map =
                         [k \in DOMAIN user_settings.map \cup {name} |->
                             IF k = name THEN value ELSE user_settings.map[k]]]
                ELSE [user_settings EXCEPT !.map =
                         [k \in DOMAIN user_settings.map \ {name} |-> user_settings.map[k]]]
          /\ us_pc' = IF user_settings.null /\ ~checked THEN "crashed" ELSE us_pc
          /\ us_hist' =
                [us_hist EXCEPT
                    !.last = [op |-> "set", name |-> name, value |-> value],
                    !.since = IF user_settings.null THEN @
                              ELSE [k \in DOMAIN @ \cup {name} |->
                                       IF k = name THEN value ELSE @[k]]]
    /\ UNCHANGED <<conf_path, files, us_path, us_todo, us_io, us_ret, notUs>>

\* get_user_setting (119-122): the value of the key, NUL standing for NULL; on
\* a NULL table g_hash_table_lookup returns NULL or ends the process, as above
UsGet ==
    /\ UsCall
    /\ \E name \in SettingKeys, checked \in BOOLEAN :
          /\ us_pc' = IF user_settings.null /\ ~checked THEN "crashed" ELSE us_pc
          /\ us_hist' =
                [us_hist EXCEPT
                    !.last = [op |-> "get", name |-> name,
                              value |-> IF ~user_settings.null /\ name \in DOMAIN user_settings.map
                                        THEN user_settings.map[name] ELSE NUL]]
    /\ UNCHANGED <<user_settings, conf_path, files, us_path, us_todo, us_io, us_ret, notUs>>

\* save_user_settings (86-92): nothing to do without a path or a table
UsSaveUserSettings ==
    /\ UsCall
    /\ IF conf_path.null \/ user_settings.null
       THEN /\ us_ret' = TRUE
            /\ UNCHANGED <<us_pc, us_path, us_todo, us_io>>
       ELSE /\ us_pc' = "create_parentdir"
            /\ us_path' = conf_path.path
            /\ us_todo' = DOMAIN user_settings.map
            /\ us_io' = NoIo
            /\ UNCHANGED us_ret
    /\ us_hist' = [us_hist EXCEPT !.last = [op |-> "save", name |-> "", value |-> ""]]
    /\ UNCHANGED <<user_settings, conf_path, files, notUs>>

\* save_conf_file called with a path of the caller
UsSaveConfFile ==
    /\ UsCall
    /\ ~user_settings.null
    /\ \E path \in {<<"x.conf">>, <<"d", "/", "x.conf">>} :
          us_path' = path
    /\ us_pc' = "create_parentdir"
    /\ us_todo' = DOMAIN user_settings.map
    /\ us_io' = NoIo
    /\ us_hist' = [us_hist EXCEPT !.last = [op |-> "save_conf_file", name |-> "", value |-> ""]]
    /\ UNCHANGED <<user_settings, conf_path, files, us_ret, notUs>>

\* create_parentdir(temp_path) and fopen(temp_path, "w") (53-54)
UsOpenTemp ==
    /\ us_pc = "create_parentdir"
    /\ \E made \in BOOLEAN, opened \in BOOLEAN :
          IF ~create_parentdir(temp_path_of(us_path), made)
          THEN /\ us_io' = [us_io EXCEPT !.mkdir = "failed"]
               /\ us_ret' = FALSE
               /\ us_pc' = "idle"
               /\ UNCHANGED files
          ELSE IF ~opened
          THEN /\ us_io' = [us_io EXCEPT !.mkdir = "ok", !.fopen = "failed"]
               /\ us_ret' = FALSE
               /\ us_pc' = "idle"
               /\ UNCHANGED files
          ELSE /\ us_io' = [us_io EXCEPT !.mkdir = "ok", !.fopen = "ok"]
               /\ files' = [f \in DOMAIN files \cup {temp_path_of(us_path)} |->
                               IF f = temp_path_of(us_path) THEN EmptyMap ELSE files[f]]
               /\ us_pc' = "write"
               /\ UNCHANGED us_ret
    /\ UNCHANGED <<user_settings, conf_path, us_path, us_todo, us_calls, us_hist, notUs>>

\* one fprintf of the loop over the table (56-58)
UsWriteEntry ==
    /\ us_pc = "write"
    /\ us_todo # {}
    /\ \E name \in us_todo :
          LET tmp == temp_path_of(us_path)
          IN /\ files' = [files EXCEPT ![tmp] =
                             [k \in DOMAIN files[tmp] \cup {name} |->
                                 IF k = name THEN user_settings.map[name] ELSE files[tmp][k]]]
             /\ us_todo' = us_todo \ {name}
    /\ UNCHANGED <<user_settings, conf_path, us_pc, us_path, us_io, us_ret, us_calls,
                   us_hist, notUs>>

\* fclose, rename and the return (60-73); rc is what rename returns
UsRename ==
    /\ us_pc = "write"
    /\ us_todo = {}
    /\ \E rc \in {0, -1} :
          LET tmp == temp_path_of(us_path)
          IN /\ files' = IF rc = 0
                         THEN [f \in (DOMAIN files \cup {us_path}) \ {tmp} |->
                                  IF f = us_path THEN files[tmp] ELSE files[f]]
                         ELSE files
             /\ us_io' = [us_io EXCEPT !.rename = IF rc = 0 THEN "ok" ELSE "failed"]
             /\ us_ret' = ~rename_jumps_to_cleanup(rc)
    /\ us_pc' = "idle"
    /\ UNCHANGED <<user_settings, conf_path, us_path, us_todo, us_calls, us_hist, notUs>>

\* the process is terminated inside save_conf_file
UsKill ==
    /\ us_pc \in {"create_parentdir", "write"}
    /\ us_pc' = "killed"
    /\ UNCHANGED <<user_settings, conf_path, files, us_path, us_todo, us_io, us_ret,
                   us_calls, us_hist, notUs>>

UsNext ==
    \/ UsLoad
    \/ UsSet
    \/ UsGet
    \/ UsSaveUserSettings
    \/ UsSaveConfFile
    \/ UsOpenTemp
    \/ UsWriteEntry
    \/ UsRename
    \/ UsKill

SpecUserSettings == UsInit /\ [][UsNext]_vars

\* save_conf_file has returned
SaveReturned == us_pc = "idle" /\ us_io.mkdir # "none"

----------------------------------------------------------------------------
(* ask_for_missing_settings (report.cpp 561-590), one action per call that  *)
(* reads the terminal or changes it.                                        *)

\* the settings it may be handed: any of Login, Password and Extra, empty or not
AskSettings == UNION { [present -> {"", "x"}] : present \in SUBSET {"Login", "Password", "Extra"} }

AmInit ==
    /\ am_settings \in AskSettings
    /\ am_settings0 = am_settings
    /\ am_pc = "entered"
    /\ am_changed = FALSE
    /\ am_result = ""
    /\ am_prompts = <<>>
    /\ tty \in BOOLEAN
    /\ echo \in BOOLEAN
    /\ echo0 = echo
    /\ CodecIdle /\ EdIdle /\ EvIdle /\ GsIdle /\ RepIdle /\ UsIdle

\* the tests of the two keys and the login prompt (563-578)
AmLogin ==
    /\ am_pc = "entered"
    /\ IF ~loginMissing(am_settings) /\ ~passwordMissing(am_settings)
       THEN /\ am_pc' = "returned"
            /\ UNCHANGED <<am_settings, am_result, am_prompts>>
       ELSE /\ am_pc' = IF passwordMissing(am_settings) THEN "echo_off" ELSE "returned"
            /\ IF loginMissing(am_settings)
               THEN \E input \in Typed \cup {NUL} :
                       /\ am_result' = read_from_stdin(input)
                       /\ am_settings' = [am_settings EXCEPT !["Login"] = am_result']
                       /\ am_prompts' = <<"Wrong settings", "Enter your login: ">>
               ELSE /\ am_prompts' = <<"Wrong settings">>
                    /\ UNCHANGED <<am_settings, am_result>>
    /\ UNCHANGED <<am_settings0, am_changed, tty, echo, echo0, notAm>>

\* bool changed = set_echo(false) (581)
AmEchoOff ==
    /\ am_pc = "echo_off"
    /\ \E got \in BOOLEAN, set \in BOOLEAN :
          LET r == set_echo(FALSE, tty, echo, got, set)
          IN /\ am_changed' = r.changed
             /\ echo' = r.echo
             /\ am_pc' = IF r.died THEN "died" ELSE "read_password"
    /\ UNCHANGED <<am_settings, am_settings0, am_result, am_prompts, tty, echo0, notAm>>

\* read_from_stdin for the password (582)
AmReadPassword ==
    /\ am_pc = "read_password"
    /\ \E input \in Typed \cup {NUL} : am_result' = read_from_stdin(input)
    /\ am_prompts' = Append(am_prompts, "Enter your password: ")
    /\ am_pc' = "echo_on"
    /\ UNCHANGED <<am_settings, am_settings0, am_changed, tty, echo, echo0, notAm>>

\* if (changed) set_echo(true), the newline and the assignment (583-589)
AmRestore ==
    /\ am_pc = "echo_on"
    /\ \E got \in BOOLEAN, set \in BOOLEAN :
          LET r == IF am_changed THEN set_echo(TRUE, tty, echo, got, set)
                   ELSE [changed |-> FALSE, echo |-> echo, died |-> FALSE]
          IN /\ echo' = r.echo
             /\ IF r.died
                THEN am_pc' = "died" /\ UNCHANGED am_settings
                ELSE /\ am_pc' = "returned"
                     /\ am_settings' = [am_settings EXCEPT !["Password"] = am_result]
    /\ UNCHANGED <<am_settings0, am_changed, am_result, am_prompts, tty, echo0, notAm>>

AmNext == AmLogin \/ AmEchoOff \/ AmReadPassword \/ AmRestore

SpecAsk == AmInit /\ [][AmNext]_vars

----------------------------------------------------------------------------
(* Claims *)

\* C1: for every content c, remove_comments_and_unescape of escape(c),
\* with or without renderer comment lines in front, gives back exactly c.
C1_RoundTrip == cpc = "parsed" => cbuf = cstr

\* the block of field f in the text read_crash_report was given differs from
\* the field's content
BlockEdited(f) ==
    LET blk == field_block(remove_comments_and_unescape(ed_file), f)
    IN blk.found /\ blk.newvalue # trim(ed_data0[f].content)

\* C2: writing a report, leaving the text as it is and reading it back
\* reports no change and leaves every field's content as it was.
C2_UnmodifiedIsNoOp ==
    (EdApplied /\ ed_file = ed_rendered) => (ed_changed = 0 /\ ed_data = ed_data0)

\* C6: read_crash_report never changes the content of a field whose SYS flag
\* is set, with or without ISEDITABLE, whatever its block in the text holds.
C6_SysNeverChanges ==
    \A f \in DOMAIN ed_data0 :
        CD_FLAG_SYS \in ed_data0[f].flags => ed_data[f] = ed_data0[f]

\* a field with SYS and ISEDITABLE went through read_crash_report with an edited block
C6_Witness ==
    /\ EdApplied
    /\ \E f \in DOMAIN ed_data0 :
          /\ {CD_FLAG_SYS, CD_FLAG_ISEDITABLE} \subseteq ed_data0[f].flags
          /\ BlockEdited(f)

\* C7: read_crash_report never changes the content of a field without
\* ISEDITABLE, and when it reports a change an editable field did change.
C7_ReadOnlyNeverChanges ==
    /\ \A f \in DOMAIN ed_data0 :
          CD_FLAG_ISEDITABLE \notin ed_data0[f].flags => ed_data[f] = ed_data0[f]
    /\ (EdApplied /\ ed_changed # 0) =>
          \E f \in DOMAIN ed_data0 :
             /\ CD_FLAG_ISEDITABLE \in ed_data0[f].flags
             /\ ed_data[f].content # ed_data0[f].content

\* a field with neither SYS nor ISEDITABLE went through read_crash_report with
\* an edited block, and nothing else was edited
C7_Witness ==
    /\ EdApplied
    /\ ed_changed = 0
    /\ \E f \in DOMAIN ed_data0 :
          /\ ed_data0[f].flags \cap {CD_FLAG_SYS, CD_FLAG_ISEDITABLE} = {}
          /\ BlockEdited(f)


\* the lines of a text: the stretches between newlines, a newline at the very
\* end closing the last line
RECURSIVE LinesOf(_, _, _)
LinesOf(text, i, cur) ==
    IF i > Len(text) THEN (IF cur = <<>> THEN <<>> ELSE <<cur>>)
    ELSE IF text[i] = NL THEN <<cur>> \o LinesOf(text, i + 1, <<>>)
    ELSE LinesOf(text, i + 1, Append(cur, text[i]))

\* the line is the token "report" alone, or starts with "report_"
QualifiesAsReporter(line) ==
    \/ line = ReportToken
    \/ (Len(line) > Len(ReportToken) /\ SubSeq(line, 1, Len(ReportToken) + 1) = ReportToken \o <<"_">>)

\* C3: the reporters found are exactly, in order, the lines that are "report"
\* alone or start with "report_", whether or not a newline follows the line.
C3_Discovery ==
    ev_pc = "scanned" =>
        ev_found = SelectSeq(LinesOf(ev_text, 1, <<>>), QualifiesAsReporter)

\* the user's file of reporter d was loaded
UserLoaded(d) == gs_home /\ gs_user[d].success

\* C8: the returned map of every reporter holds, for each key, the value of
\* the user's file if that file was loaded and has the key, else the system
\* default; keys only in the file are added; with no loaded file the map is
\* the system defaults.
C8_Layering ==
    gs_pc = "returned" =>
        /\ DOMAIN gs_settings = Range(gs_reporters)
        /\ \A d \in Range(gs_reporters) :
              LET m == gs_settings[d]
                  u == gs_user[d].map
              IN IF UserLoaded(d)
                 THEN /\ DOMAIN m = DOMAIN gs_sys[d] \cup DOMAIN u
                      /\ \A k \in DOMAIN m :
                            m[k] = IF k \in DOMAIN u THEN u[k] ELSE gs_sys[d][k]
                 ELSE m = gs_sys[d]

\* a loaded file overrode one key, kept another and added a third
C8_Witness ==
    /\ gs_pc = "returned"
    /\ \E d \in Range(gs_reporters) :
          /\ UserLoaded(d)
          /\ (DOMAIN gs_user[d].map) \ (DOMAIN gs_sys[d]) # {}
          /\ (DOMAIN gs_sys[d]) \ (DOMAIN gs_user[d].map) # {}
          /\ \E k \in DOMAIN gs_user[d].map \cap DOMAIN gs_sys[d] :
                gs_user[d].map[k] # gs_sys[d][k] /\ gs_settings[d][k] = gs_user[d].map[k]

\* every yes/no question of the run was answered yes
AllYes == \A j \in 1..Len(trace) : trace[j].kind = "typed" => trace[j].arg = <<"y", NL>>

\* the user declined the reporter at position i of the reporters vector
Declined(i) ==
    \E j \in 1..Len(trace) :
        trace[j].kind = "ask" /\ trace[j].idx = i /\ trace[j].arg = "no"

\* a call_Report naming reporter d was made
ReportSentFor(d) ==
    \E j \in 1..Len(trace) : trace[j].kind = "Report" /\ d \in Range(trace[j].dests)

\* reporter d was refused for its rating
RefusedFor(d) ==
    \E j \in 1..Len(trace) : trace[j].kind = "disabled" /\ trace[j].dests = <<d>>

\* C4: with every question answered yes, the interactive run ends with the
\* failure count batch mode reaches for the same reporters, settings and
\* statuses.
C4_BatchInteractiveParity ==
    (Finished /\ CLI_REPORT_BATCH \notin flags /\ AllYes) =>
        errors = failed_statuses(call_Report(reporters, outcome))

\* C9: with a rating below 3, a reporter whose settings declare
\* RatingRequired and that the user does not decline gets no Report call, is
\* tallied as one failure, and report() returns the failure status.
C9_RatingGate ==
    Finished =>
        \A i \in 1..Len(reporters) :
            LET d == reporters[i]
            IN (rating_refused(reporters_settings[d], rating) /\ ~Declined(i)) =>
                  (~ReportSentFor(d) /\ RefusedFor(d) /\ ret = 1)

\* the trace entry tells of a reporter that failed
FailureEntry(e) ==
    \/ e.kind = "status" /\ e.arg = "0"
    \/ e.kind = "loaderror"
    \/ e.kind = "disabled"

\* C10: from the Finish step report() returns 1 if and only if a reporter
\* that was attempted failed, and 0 otherwise; never 2, 3 or -1.
C10_FinishStatus ==
    Finished =>
        /\ ret \in {0, 1}
        /\ ret = 1 <=> \E j \in 1..Len(trace) : FailureEntry(trace[j])

\* a run with two failed reporters, one refused and one with a failed status
C10_Witness ==
    /\ Finished
    /\ ret = 1
    /\ \E j, k \in 1..Len(trace) :
          /\ trace[j].kind = "disabled"
          /\ trace[k].kind = "status" /\ trace[k].arg = "0"

\* C5: save_conf_file returns true exactly when the temporary file was
\* written and renamed onto the target, and false when the parent directory
\* cannot be created, the temporary file cannot be opened or the rename fails.
C5_SaveResult ==
    SaveReturned =>
        /\ us_ret = TRUE <=> us_io.rename = "ok"
        /\ ("failed" \in {us_io.mkdir, us_io.fopen, us_io.rename}) => us_ret = FALSE

\* C11: when ask_for_missing_settings returns, the ECHO flag of the terminal
\* has the value it had on entry, whatever the prompts, the reads and the
\* terminal queries of the restoring set_echo(true) did.
C11_EchoRestored == am_pc = "returned" => echo = echo0

\* C12: ask_for_missing_settings changes no key but a Login or Password that
\* was present and empty: other values are kept, absent keys stay absent, and
\* with neither key present and empty nothing is asked and the map is kept.
C12_OnlyEmptyCredentials ==
    am_pc = "returned" =>
        /\ DOMAIN am_settings = DOMAIN am_settings0
        /\ \A k \in DOMAIN am_settings0 :
              (k \notin {"Login", "Password"} \/ am_settings0[k] # "")
                  => am_settings[k] = am_settings0[k]
        /\ (\A k \in {"Login", "Password"} \cap DOMAIN am_settings0 : am_settings0[k] # "")
              => (am_prompts = <<>> /\ am_settings = am_settings0)

\* a non-empty login was kept next to an empty password that was asked for
\* and filled in, and a third key was left as it was
C12_Witness ==
    /\ am_pc = "returned"
    /\ DOMAIN am_settings0 = {"Login", "Password", "Extra"}
    /\ am_settings0["Login"] = "x" /\ am_settings["Login"] = "x"
    /\ am_settings0["Password"] = "" /\ am_settings["Password"] = "u"
    /\ am_prompts = <<"Wrong settings", "Enter your password: ">>

\* none of the steps that follow call_CreateReport has left an entry
NothingDone ==
    \A j \in 1..Len(trace) :
        trace[j].kind \notin {"editor", "typed", "ask", "prompt", "settings", "Report"}

\* C13: when CreateReport gives no report or an empty one, report() returns
\* -1, which is none of 0, 1, 2 and 3, without running the editor, asking a
\* question, fetching settings or calling Report.
C13_NotFound ==
    (pc = "done" /\ (created.null \/ created.data = EmptyMap)) =>
        /\ ret = -1
        /\ ret \notin {0, 1, 2, 3}
        /\ NothingDone

\* report() returned for an empty report that is not NULL
C13_Witness ==
    pc = "done" /\ ~created.null /\ created.data = EmptyMap /\ ret = -1

\* C17: in interactive mode a reporter the user confirms and whose resolved
\* settings are the empty map is handled as a settings load error: no Report
\* call names it and it is counted once as processed and failed.
C17_EmptySettingsIsLoadError ==
    (Finished /\ CLI_REPORT_BATCH \notin flags) =>
        \A i \in 1..Len(reporters) :
            LET d == reporters[i]
            IN (reporters_settings[d] = EmptyMap
                  /\ \E j \in 1..Len(trace) :
                        trace[j].kind = "typed" /\ trace[j].idx = i /\ trace[j].arg = <<"y", NL>>)
               => /\ \E j \in 1..Len(trace) : trace[j].kind = "loaderror" /\ trace[j].idx = i
                  /\ ~\E j \in 1..Len(trace) : trace[j].kind = "Report" /\ trace[j].idx = i

\* the entries that tell of a review that failed
ReviewFailures == {j \in 1..Len(trace) : trace[j].kind = "error_msg"}

\* C19: in interactive mode a review that fails on the temporary file makes
\* report() return 2 and one that fails to launch the editor makes it return
\* 3, in both cases before reporters are looked for, settings fetched or
\* Report called.
C19_ReviewFailure ==
    (pc = "done" /\ ReviewFailures # {}) =>
        /\ CLI_REPORT_BATCH \notin flags
        /\ \A j \in ReviewFailures :
              ret = IF trace[j].arg = "no_editor" THEN 3 ELSE 2
        /\ reporters = <<>>
        /\ \A j \in 1..Len(trace) :
              trace[j].kind \notin {"typed", "ask", "prompt", "settings", "Report"}

\* report() returned 3 because no editor could be launched
C19_Witness ==
    /\ pc = "done" /\ ret = 3
    /\ \E j \in ReviewFailures : trace[j].arg = "no_editor"

\* the entries a step of report() adds to the trace
Added == SubSeq(trace', Len(trace) + 1, Len(trace'))

ChangedFields == {f \in DOMAIN ed_data0 : ed_data[f].content # ed_data0[f].content}

\* C14 as stated: read_crash_report returns the number of fields whose
\* content it replaced, 0 for none and k for k fields.
C14_CountsChangedFields == EdApplied => ed_changed = Cardinality(ChangedFields)

\* C14: read_crash_report returns 1 when it replaced the content of at least
\* one field and 0 when it replaced none.
C14_TellsAnyChange == EdApplied => ed_changed = (IF ChangedFields # {} THEN 1 ELSE 0)

\* two fields were replaced in one call
C14_Witness == EdApplied /\ Cardinality(ChangedFields) = 2 /\ ed_changed = 1

\* the line begins with '#'
IsCommentLine(line) == line # <<>> /\ line[1] = "#"

\* C15: every line of a content that begins with '#' is in escape(c) with a
\* backslash in front, escape(c) has no line that begins with '#', and
\* remove_comments_and_unescape gives back as many lines as the content has.
C15_CommentSafety ==
    LET lc == LinesOf(cstr, 1, <<>>)
        lb == LinesOf(cbuf, 1, <<>>)
    IN /\ cpc = "escaped" =>
             /\ Len(lb) = Len(lc)
             /\ \A j \in 1..Len(lc) :
                   /\ IsCommentLine(lc[j]) => lb[j] = <<BSL>> \o lc[j]
                   /\ ~IsCommentLine(lb[j])
       /\ cpc = "parsed" => Len(lb) = Len(lc)

\* a content whose second line begins with '#' went through both functions
C15_Witness == cpc = "parsed" /\ cstr = <<"a", NL, "#">> /\ cbuf = cstr

\* C16: trim(trim(s)) is trim(s), and trim(s) neither begins nor ends with a
\* whitespace character, for the empty and the all-whitespace strings too.
C16_TrimIdempotent ==
    /\ cpc = "trimmed2" => cbuf = trim(cstr)
    /\ cpc \in {"trimmed", "trimmed2"} =>
          (cbuf = <<>> \/ (~isspace(cbuf[1]) /\ ~isspace(cbuf[Len(cbuf)])))

\* a string with whitespace on both sides was trimmed twice
C16_Witness == cpc = "trimmed2" /\ cstr = <<" ", "a", NL>> /\ cbuf = <<"a">>

\* the file write_crash_report wrote has a block for field f
Rendered(f) == strstr(ed_rendered, FIELD_SEP \o <<f, NL>>, 0) # -1

\* C18 as stated: once the file is written, it has a block for every
\* well-known field the report has, those with the SYS flag included.
C18_AllPresentRendered ==
    ed_pc = "launch" => \A f \in DOMAIN ed_data0 \cap WellKnownNames : Rendered(f)

\* C18: once the file is written, it has a block for the well-known fields
\* the report has whose SYS flag is not set, and for no other field.
C18_NonSysRendered ==
    ed_pc = "launch" =>
        \A f \in WellKnownNames :
            Rendered(f) <=> (f \in DOMAIN ed_data0 /\ CD_FLAG_SYS \notin ed_data0[f].flags)

\* a file with the block of one field and without that of a SYS field
C18_Witness ==
    /\ ed_pc = "launch"
    /\ DOMAIN ed_data0 = {FILENAME_COMMENT, FILENAME_PACKAGE}
    /\ CD_FLAG_SYS \in ed_data0[FILENAME_PACKAGE].flags /\ ~Rendered(FILENAME_PACKAGE)
    /\ CD_FLAG_SYS \notin ed_data0[FILENAME_COMMENT].flags /\ Rendered(FILENAME_COMMENT)

\* the entries of the trace of the kind given, in their order
Entries(kind) == SelectSeq(trace, LAMBDA e : e.kind = kind)

\* C21: in interactive mode every reporter found is asked about exactly once,
\* in the order of the reporters vector, whatever became of the reporters
\* before it.
C21_EveryReporterAsked ==
    (Finished /\ CLI_REPORT_BATCH \notin flags) =>
        /\ Len(Entries("ask")) = Len(reporters)
        /\ \A i \in 1..Len(reporters) :
              Entries("ask")[i].idx = i /\ Entries("ask")[i].dests = <<reporters[i]>>

\* the first of two reporters got a failed status and the second was asked
C21_Witness ==
    /\ Finished /\ CLI_REPORT_BATCH \notin flags
    /\ Len(reporters) = 2
    /\ \E j \in 1..Len(trace) :
          /\ trace[j].kind = "status" /\ trace[j].arg = "0" /\ trace[j].dests = <<reporters[1]>>
          /\ \E k \in (j + 1)..Len(trace) : trace[k].kind = "ask" /\ trace[k].idx = 2

\* C22: in batch mode report() runs no editor, asks no question and no login
\* or password, leaves the report as CreateReport gave it, makes one Report
\* call with all reporters found, counts one plugin per status returned and
\* one error per status whose flag is "0".
C22_BatchMode ==
    (Finished /\ CLI_REPORT_BATCH \in flags) =>
        /\ \A j \in 1..Len(trace) :
              trace[j].kind \notin {"editor", "typed", "ask", "prompt"}
        /\ crash_data = created.data
        /\ Len(Entries("Report")) = 1
        /\ Entries("Report")[1].dests = reporters
        /\ plugins = Len(Entries("status"))
        /\ errors = Len(SelectSeq(Entries("status"), LAMBDA e : e.arg = "0"))

\* a batch run with two reporters, one status failed and one not
C22_Witness ==
    /\ Finished /\ CLI_REPORT_BATCH \in flags
    /\ Len(reporters) = 2
    /\ plugins = 2 /\ errors = 1

\* the content of the file at path p, a missing file holding nothing
FileAt(fs, p) == IF p \in DOMAIN fs THEN <<fs[p]>> ELSE <<>>

\* the paths whose file differs between two file systems
ChangedPaths(fs, gs) == { p \in DOMAIN fs \cup DOMAIN gs : FileAt(fs, p) # FileAt(gs, p) }

\* what holds right after the call us_hist.last
UserSettingsAfterCall ==
    /\ us_hist.last.op = "load" =>
          LET path == get_conf_path(us_hist.last.name)
          IN /\ ~user_settings.null
             /\ DOMAIN user_settings.map \subseteq
                   (IF path \in DOMAIN files THEN DOMAIN files[path] ELSE {})
             /\ us_ret => user_settings.map = files[path]
    /\ (us_hist.last.op = "get" /\ us_hist.app # ""
            /\ us_hist.last.name \in DOMAIN us_hist.since) =>
          us_hist.last.value = us_hist.since[us_hist.last.name]
    /\ (us_hist.last.op = "save" /\ us_hist.app # "") =>
          /\ us_path = get_conf_path(us_hist.app)
          /\ us_pc # "idle" \/ us_io.mkdir # "none"
    /\ (us_hist.last.op = "save" /\ us_hist.app = "") =>
          us_pc = "idle" /\ us_ret = TRUE

\* what a step of the calls does to the files
UserSettingsStep ==
    /\ us_calls' # us_calls => files' = files
    /\ (us_calls' = us_calls /\ us_hist.last.op = "save") =>
          ChangedPaths(files, files') \subseteq
              { get_conf_path(us_hist.app), temp_path_of(get_conf_path(us_hist.app)) }

\* C23: after load_user_settings(app) the table holds only keys of app's file
\* (all of them when the load succeeds, none set earlier), get_user_setting(k)
\* returns what the latest set_user_setting(k, v) since the last load stored
\* (NULL after a null v), and save_user_settings changes only the file of the
\* application loaded last and its temporary file, or changes nothing and
\* returns true when nothing was loaded.
C23_UserSettings == []UserSettingsAfterCall /\ [][UserSettingsStep]_vars

\* C23 witness: A's file was there, B was loaded, k2 was set and the save has
\* put exactly that into B's file
C23_Witness ==
    /\ us_hist.last.op = "save" /\ us_hist.app = "B"
    /\ us_pc = "idle" /\ us_io.rename = "ok"
    /\ get_conf_path("A") \in DOMAIN files
    /\ files[get_conf_path("A")] = [k1 |-> "v"]
    /\ files[get_conf_path("B")] = [k2 |-> "w"]

\* a path that save_conf_file made with "%s.tmp"
IsTemp(p) == p # <<>> /\ p[Len(p)] = ".tmp"

\* C24: whenever the process may be terminated in save_conf_file, every file
\* other than the '.tmp' one is as it was before the call or holds the whole
\* table: a step changes such a file only at the target path and only to the
\* complete new content.
C24_TargetAtomic ==
    [][\A p \in ChangedPaths(files, files') :
          ~IsTemp(p) =>
             /\ p = us_path
             /\ FileAt(files', p) = <<user_settings.map>>]_vars

\* C24 witness: terminated with part of the table in the temporary file while
\* the target still holds its previous, different content
C24_Witness ==
    /\ us_pc = "killed"
    /\ temp_path_of(us_path) \in DOMAIN files
    /\ DOMAIN files[temp_path_of(us_path)] # {}
    /\ DOMAIN files[temp_path_of(us_path)] # DOMAIN user_settings.map
    /\ us_path \in DOMAIN files
    /\ files[us_path] # user_settings.map
    /\ files[us_path] # files[temp_path_of(us_path)]

=============================================================================
